---- MODULE Spec2Model ----
(***************************************************************************)
(* A model of web/shared/src/typeahead.ts: text normalization, the string  *)
(* matcher, the triage classifier and the emoji ranker.                    *)
(*                                                                         *)
(* A string is a sequence of characters; a character is written as a TLA+  *)
(* string: an ASCII character stands for itself, any other code point is   *)
(* written "U+XXXX".  The functions of the file are pure, so each is an    *)
(* operator, and each specification below draws the arguments of one call  *)
(* in its initial state and performs the call in an action.                *)
(***************************************************************************)
EXTENDS Integers, Sequences, FiniteSets

VARIABLES pc, fn, query, source_str, split_char, objs, sorting_comparator, calls, ret

vars == <<pc, fn, query, source_str, split_char, objs, sorting_comparator, calls, ret>>

---------------------------------------------------------------------------
(* Bounds of the checked instances.                                        *)

MaxNormLen == 3
MaxCalls == 2
MaxQueryLen == 2
MaxSourceLen == 3
MaxObjs == 3
MaxEmojis == 3

---------------------------------------------------------------------------
(* Sequences.                                                              *)

StringsUpTo(chars, n) == UNION {[1..k -> chars] : k \in 0..n}

RECURSIVE Flatten(_)
Flatten(ss) == IF ss = <<>> THEN <<>> ELSE Head(ss) \o Flatten(Tail(ss))

\* String.prototype.startsWith
StartsWith(s, p) == Len(p) <= Len(s) /\ SubSeq(s, 1, Len(p)) = p

\* String.prototype.includes
Includes(s, p) == \E i \in 1..(Len(s) + 1) : StartsWith(SubSeq(s, i, Len(s)), p)

\* String.prototype.split with a one-character separator: "a_".split("_")
\* is ["a", ""], and "".split("_") is [""].
RECURSIVE Split(_, _)
Split(s, c) ==
    IF \A i \in 1..Len(s) : s[i] # c
    THEN <<s>>
    ELSE LET i == CHOOSE k \in 1..Len(s) : s[k] = c /\ \A j \in 1..(k - 1) : s[j] # c
         IN  <<SubSeq(s, 1, i - 1)>> \o Split(SubSeq(s, i + 1, Len(s)), c)

\* String.prototype.replace(/c/g, d) for single characters c and d
ReplaceAll(s, c, d) == [i \in 1..Len(s) |-> IF s[i] = c THEN d ELSE s[i]]

---------------------------------------------------------------------------
(* The Unicode data the file relies on, for the characters of the model.   *)

\* String.prototype.toLowerCase, per character.  U+2122 (the trade mark
\* sign) has no lower-case mapping; neither has a combining mark.
LowerOf(c) ==
    CASE c = "A" -> "a"
      [] c = "B" -> "b"
      [] c = "H" -> "h"
      [] c = "K" -> "k"
      [] c = "M" -> "m"
      [] c = "T" -> "t"
      [] c = "U+00C0" -> "U+00E0"
      [] OTHER -> c

toLowerCase(s) == [i \in 1..Len(s) |-> LowerOf(s[i])]

\* The compatibility decomposition (NFKD) of one character:
\*   U+00E0 (a with grave) -> a, U+0300      U+00C0 (A with grave) -> A, U+0300
\*   U+00A0 (no-break space) -> space        U+2122 (trade mark sign) -> T, M
NFKDOf(c) ==
    CASE c = "U+00E0" -> <<"a", "U+0300">>
      [] c = "U+00C0" -> <<"A", "U+0300">>
      [] c = "U+00A0" -> <<" ">>
      [] c = "U+2122" -> <<"T", "M">>
      [] OTHER -> <<c>>

\* The strings of the model hold no two marks of different combining
\* classes in a row, so the canonical reordering of NFKD changes nothing.
normalize_NFKD(s) == Flatten([i \in 1..Len(s) |-> NFKDOf(s[i])])

\* \p{M}: U+0300 is the combining grave accent.
unicode_marks == {"U+0300"}

remove_diacritics(s) == SelectSeq(normalize_NFKD(s), LAMBDA c : c \notin unicode_marks)

clean_query(q) == ReplaceAll(remove_diacritics(q), "U+00A0", " ")

clean_query_lowercase(q) == clean_query(toLowerCase(q))

---------------------------------------------------------------------------
(* The string matcher.                                                     *)

\* Faulty variant: the matcher lower-cases the query as well.
query_matches_string_lowering_query(q, src, sep) ==
    LET source == remove_diacritics(toLowerCase(src))
        lq == toLowerCase(q)
        queries == Split(lq, sep)
        source_arr == Split(source, sep)
    IN  IF ~Includes(lq, <<sep>>)
        THEN Includes(source, lq)
        ELSE \A i \in 1..Len(queries) :
                \E j \in 1..Len(source_arr) : StartsWith(source_arr[j], queries[i])

\* Faulty variant: the i-th query token must be a prefix of the i-th source token.
query_matches_string_in_order(q, src, sep) ==
    LET source == remove_diacritics(toLowerCase(src))
        queries == Split(q, sep)
        source_arr == Split(source, sep)
    IN  IF ~Includes(q, <<sep>>)
        THEN Includes(source, q)
        ELSE \A i \in 1..Len(queries) :
                i <= Len(source_arr) /\ StartsWith(source_arr[i], queries[i])

query_matches_string(q, src, sep) ==
    LET source == remove_diacritics(toLowerCase(src))
        queries == Split(q, sep)
        source_arr == Split(source, sep)
    IN  IF ~Includes(q, <<sep>>)
        THEN Includes(source, q)
        ELSE \A i \in 1..Len(queries) :
                \E j \in 1..Len(source_arr) : StartsWith(source_arr[j], queries[i])

---------------------------------------------------------------------------
(* Calls of the text normalizers: a caller normalizes a string and may     *)
(* pass the result in again.                                               *)

\* a, A, a with grave, A with grave, combining grave, no-break space,
\* trade mark sign
NormChars == {"a", "A", "U+00E0", "U+00C0", "U+0300", "U+00A0", "U+2122"}

InitNorm ==
    /\ pc = "ready"
    /\ fn \in {"remove_diacritics", "clean_query_lowercase"}
    /\ \E s \in StringsUpTo(NormChars, MaxNormLen) :
          /\ source_str = (IF fn = "remove_diacritics" THEN s ELSE <<>>)
          /\ query = (IF fn = "clean_query_lowercase" THEN s ELSE <<>>)
    /\ split_char = "_"
    /\ objs = <<>>
    /\ sorting_comparator = "none"
    /\ calls = 0
    /\ ret = <<>>

RemoveDiacritics ==
    /\ pc = "ready"
    /\ fn = "remove_diacritics"
    /\ ret' = remove_diacritics(source_str)
    /\ calls' = calls + 1
    /\ pc' = "returned"
    /\ UNCHANGED <<fn, query, source_str, split_char, objs, sorting_comparator>>

CleanQueryLowercase ==
    /\ pc = "ready"
    /\ fn = "clean_query_lowercase"
    /\ ret' = clean_query_lowercase(query)
    /\ calls' = calls + 1
    /\ pc' = "returned"
    /\ UNCHANGED <<fn, query, source_str, split_char, objs, sorting_comparator>>

\* The caller passes the value returned to the same function again.
Reapply ==
    /\ pc = "returned"
    /\ fn \in {"remove_diacritics", "clean_query_lowercase"}
    /\ calls < MaxCalls
    /\ source_str' = (IF fn = "remove_diacritics" THEN ret ELSE source_str)
    /\ query' = (IF fn = "clean_query_lowercase" THEN ret ELSE query)
    /\ pc' = "ready"
    /\ UNCHANGED <<fn, split_char, objs, sorting_comparator, calls, ret>>

NextNorm == RemoveDiacritics \/ CleanQueryLowercase \/ Reapply

SpecNorm == InitNorm /\ [][NextNorm]_vars

\* After a second (or later) call the argument was the previous result.
Reapplied(f) == pc = "returned" /\ fn = f /\ calls >= 2

\* Supporting fact: remove_diacritics alone is idempotent.
RemoveDiacriticsIdempotent == Reapplied("remove_diacritics") => ret = source_str

\* C10: text normalization is idempotent: remove_diacritics(remove_diacritics(s))
\* = remove_diacritics(s) and clean_query_lowercase(clean_query_lowercase(s)) =
\* clean_query_lowercase(s), for every string s.
C10_NormalizationIdempotent ==
    /\ Reapplied("remove_diacritics") => ret = source_str
    /\ Reapplied("clean_query_lowercase") => ret = query

---------------------------------------------------------------------------
(* Calls of the string matcher.                                            *)

\* a, A, b, the separator, a with grave
MatchChars == {"a", "A", "b", "_", "U+00E0"}

ab_cd_ef == <<"a", "b", " ", "c", "d", " ", "e", "f">>

King_Hamlet == <<"K", "i", "n", "g", " ", "H", "a", "m", "l", "e", "t">>

\* The examples of the comment in query_matches_string, with " " to split on.
MatchExamples ==
    {<<q, ab_cd_ef>> : q \in {<<"a", "b", " ", "c">>, <<"a", " ", "c", " ", "e">>,
                              <<"a", " ", "e">>, <<"e", "f">>, <<"b", " ", "c", "d">>,
                              <<"b", " ">>, <<"e", "f", "g">>, <<"e", "f", "g", " ">>,
                              <<"e", "f", " ", "c", "d">>,
                              <<"e", " ", "c", "d", " ", "a">>}}
    \cup {<<q, King_Hamlet>> : q \in {<<"i", "n">>, <<"i", "n", "g">>, <<"a", "m">>,
                                      <<"l", "e">>, <<"n", "g">>, <<"K", "i", "n", "g">>}}

InitMatch ==
    /\ pc = "ready"
    /\ fn = "query_matches_string"
    /\ \/ /\ query \in StringsUpTo(MatchChars, MaxQueryLen)
          /\ source_str \in StringsUpTo(MatchChars, MaxSourceLen)
          /\ split_char = "_"
       \/ /\ \E ex \in MatchExamples : query = ex[1] /\ source_str = ex[2]
          /\ split_char = " "
    /\ objs = <<>>
    /\ sorting_comparator = "none"
    /\ calls = 0
    /\ ret = FALSE

QueryMatchesString ==
    /\ pc = "ready"
    /\ fn = "query_matches_string"
    /\ ret' = query_matches_string(query, source_str, split_char)
    /\ calls' = calls + 1
    /\ pc' = "returned"
    /\ UNCHANGED <<fn, query, source_str, split_char, objs, sorting_comparator>>

NextMatch == QueryMatchesString

SpecMatch == InitMatch /\ [][NextMatch]_vars

SingleToken == ~Includes(query, <<split_char>>)

Matched == pc = "returned" /\ fn = "query_matches_string"

\* Every token of qs is a prefix of some token of ss.
Covered(qs, ss) ==
    \A i \in 1..Len(qs) : \E j \in 1..Len(ss) : StartsWith(ss[j], qs[i])

C4_TokensCoveredByLowerCasedSource ==
    (Matched /\ ~SingleToken) =>
        (ret <=> Covered(Split(query, split_char),
                         Split(toLowerCase(source_str), split_char)))

\* C4, amended: for a query with split_char the result is true exactly when
\* every query token (empty ones included) is a prefix of some token of the
\* lower-cased source with its diacritics removed.
C4_TokensCoveredByNormalizedSource ==
    (Matched /\ ~SingleToken) =>
        (ret <=> Covered(Split(query, split_char),
                         Split(remove_diacritics(toLowerCase(source_str)), split_char)))

\* Two query tokens covered out of order by the source tokens: "ef cd"
\* against "ab cd ef" has matched.
C4_Witness ==
    /\ Matched /\ ~SingleToken
    /\ query = <<"e", "f", " ", "c", "d">>
    /\ source_str = ab_cd_ef
    /\ ret = TRUE

---------------------------------------------------------------------------
(* The triage classifier.                                                  *)

word_boundary_chars == <<" ", "_", "/", "-">>

\* lodash's escapeRegExp puts a backslash before each of ^ $ \ . * + ? ( ) [ ] { } |
reRegExpChar == {"^", "$", "\\", ".", "*", "+", "?", "(", ")", "[", "]", "{", "}", "|"}

\* Faulty variant: the query is embedded in the pattern as it is.
escapeRegExp_missing(s) == s

escapeRegExp(s) ==
    Flatten([i \in 1..Len(s) |-> IF s[i] \in reRegExpChar THEN <<"\\", s[i]>> ELSE <<s[i]>>])

\* A pattern as RegExp reads it, for the syntax the patterns of triage_raw
\* can hold: a leading character class, "\c" for the character c, "." for
\* any character, and any other character for itself.
RECURSIVE RegExpAtoms(_)
RegExpAtoms(p) ==
    IF p = <<>> THEN <<>>
    ELSE IF Head(p) = "[" /\ \E k \in 2..Len(p) : p[k] = "]"
    THEN LET close == CHOOSE k \in 2..Len(p) : p[k] = "]" /\ \A j \in 2..(k - 1) : p[j] # "]"
         IN  <<[kind |-> "class", chars |-> {p[j] : j \in 2..(close - 1)}]>>
                 \o RegExpAtoms(SubSeq(p, close + 1, Len(p)))
    ELSE IF Head(p) = "\\" /\ Len(p) >= 2
    THEN <<[kind |-> "char", chars |-> {p[2]}]>> \o RegExpAtoms(SubSeq(p, 3, Len(p)))
    ELSE IF Head(p) = "."
    THEN <<[kind |-> "any", chars |-> {}]>> \o RegExpAtoms(Tail(p))
    ELSE <<[kind |-> "char", chars |-> {Head(p)}]>> \o RegExpAtoms(Tail(p))

\* RegExp.prototype.test: the pattern matches somewhere in s.
RegExpTest(p, s) ==
    LET atoms == RegExpAtoms(p)
    IN  \E i \in 1..(Len(s) + 1) :
            /\ i + Len(atoms) - 1 <= Len(s)
            /\ \A k \in 1..Len(atoms) :
                  atoms[k].kind = "any" \/ s[i + k - 1] \in atoms[k].chars

\* The bucket the loop body of triage_raw pushes an item with text item to.
TriageBucket(q, item) ==
    LET lower_query == IF q # <<>> THEN toLowerCase(q) ELSE <<>>
        lower_item == toLowerCase(item)
    IN  IF lower_item = lower_query THEN "exact_matches"
        ELSE IF StartsWith(item, q) THEN "begins_with_case_sensitive_matches"
        ELSE IF StartsWith(lower_item, lower_query) THEN "begins_with_case_insensitive_matches"
        ELSE IF RegExpTest(<<"[">> \o word_boundary_chars \o <<"]">> \o escapeRegExp(lower_query),
                           lower_item)
        THEN "word_boundary_matches"
        ELSE "no_matches"

BucketNames ==
    {"exact_matches", "begins_with_case_sensitive_matches",
     "begins_with_case_insensitive_matches", "word_boundary_matches", "no_matches"}

\* Faulty variant: an item that passes no test is pushed nowhere.
RECURSIVE TriageRawLoop_dropping_no_matches(_, _, _, _, _)
TriageRawLoop_dropping_no_matches(q, os, get_item, i, acc) ==
    IF i > Len(os) THEN acc
    ELSE LET b == TriageBucket(q, get_item[os[i]])
         IN  TriageRawLoop_dropping_no_matches(q, os, get_item, i + 1,
                 IF b = "no_matches" THEN acc ELSE [acc EXCEPT ![b] = Append(@, os[i])])

\* The loop of triage_raw from its i-th item on, acc holding the buckets so far.
RECURSIVE TriageRawLoop(_, _, _, _, _)
TriageRawLoop(q, os, get_item, i, acc) ==
    IF i > Len(os) THEN acc
    ELSE LET b == TriageBucket(q, get_item[os[i]])
         IN  TriageRawLoop(q, os, get_item, i + 1, [acc EXCEPT ![b] = Append(@, os[i])])

triage_raw(q, os, get_item) ==
    TriageRawLoop(q, os, get_item, 1, [b \in BucketNames |-> <<>>])

\* The comparators a caller passes: by the length of the text, or by
\* descending id.  Negative: a before b; positive: b before a.
Compare(cmp, a, b) ==
    CASE cmp = "by_length" -> Len(a.text) - Len(b.text)
      [] cmp = "by_id_descending" -> b.id - a.id

\* Array.prototype.sort with a comparator: a stable sort.
RECURSIVE Sort(_, _)
Sort(s, cmp) ==
    IF s = <<>> THEN <<>>
    ELSE LET sorted == Sort(SubSeq(s, 1, Len(s) - 1), cmp)
             x == s[Len(s)]
             \* x goes after the last element that is not greater than it
             n == Cardinality({k \in 1..Len(sorted) :
                                 \A j \in 1..k : Compare(cmp, sorted[j], x) <= 0})
         IN  SubSeq(sorted, 1, n) \o <<x>> \o SubSeq(sorted, n + 1, Len(sorted))

\* Faulty variant: with a comparator, all the matches are sorted together.
triage_sorting_all_matches(q, os, get_item, cmp) ==
    LET r == triage_raw(q, os, get_item)
        all == r["exact_matches"] \o r["begins_with_case_sensitive_matches"]
                 \o r["begins_with_case_insensitive_matches"] \o r["word_boundary_matches"]
    IN  IF cmp # "none"
        THEN [matches |-> Sort(all, cmp), rest |-> Sort(r["no_matches"], cmp)]
        ELSE [matches |-> all, rest |-> r["no_matches"]]

triage(q, os, get_item, cmp) ==
    LET r == triage_raw(q, os, get_item)
    IN  IF cmp # "none"
        THEN LET beginning_matches_sorted ==
                     Sort(r["begins_with_case_sensitive_matches"]
                              \o r["begins_with_case_insensitive_matches"], cmp)
             IN  [matches |-> Sort(r["exact_matches"], cmp) \o beginning_matches_sorted
                                  \o Sort(r["word_boundary_matches"], cmp),
                  rest |-> Sort(r["no_matches"], cmp)]
        ELSE [matches |-> r["exact_matches"] \o r["begins_with_case_sensitive_matches"]
                              \o r["begins_with_case_insensitive_matches"]
                              \o r["word_boundary_matches"],
              rest |-> r["no_matches"]]

---------------------------------------------------------------------------
(* Calls of triage_raw and triage.  An item is a record with an id (its    *)
(* place in the input, which tells equal texts apart) and a text, and      *)
(* get_item reads the text.                                                *)

\* Texts for every bucket and every word boundary character, and a text
\* with a character that RegExp reads as an operator.
TriageTexts ==
    {<<"a">>, <<"a", "b">>, <<"A", "b">>, <<"b", "_", "a">>, <<"b", "-", "A">>,
     <<"b", "/", ".">>, King_Hamlet}

TriageQueries ==
    {<<>>, <<"a">>, <<"A">>, <<".">>, <<"k", "i", "n", "g">>,
     <<"h", "a", "m", "l", "e", "t">>, <<"i", "n", "g">>}

Range(s) == {s[i] : i \in 1..Len(s)}

get_text(os) == [x \in Range(os) |-> x.text]

InitTriage ==
    /\ pc = "ready"
    /\ fn \in {"triage_raw", "triage"}
    /\ query \in TriageQueries
    /\ \E n \in 0..MaxObjs : \E ts \in [1..n -> TriageTexts] :
          objs = [i \in 1..n |-> [id |-> i, text |-> ts[i]]]
    /\ sorting_comparator \in
          (IF fn = "triage" THEN {"none", "by_length", "by_id_descending"} ELSE {"none"})
    /\ source_str = <<>>
    /\ split_char = "_"
    /\ calls = 0
    /\ ret = <<>>

TriageRaw ==
    /\ pc = "ready"
    /\ fn = "triage_raw"
    /\ ret' = triage_raw(query, objs, get_text(objs))
    /\ calls' = calls + 1
    /\ pc' = "returned"
    /\ UNCHANGED <<fn, query, source_str, split_char, objs, sorting_comparator>>

Triage ==
    /\ pc = "ready"
    /\ fn = "triage"
    /\ ret' = triage(query, objs, get_text(objs), sorting_comparator)
    /\ calls' = calls + 1
    /\ pc' = "returned"
    /\ UNCHANGED <<fn, query, source_str, split_char, objs, sorting_comparator>>

NextTriage == TriageRaw \/ Triage

SpecTriage == InitTriage /\ [][NextTriage]_vars

Returned(f) == pc = "returned" /\ fn = f

\* How often x occurs in s.
Count(s, x) == Cardinality({i \in 1..Len(s) : s[i] = x})

\* s is a permutation of t.
IsPermutation(s, t) ==
    Len(s) = Len(t) /\ \A x \in Range(s) \cup Range(t) : Count(s, x) = Count(t, x)

FiveBuckets(r) ==
    r["exact_matches"] \o r["begins_with_case_sensitive_matches"]
        \o r["begins_with_case_insensitive_matches"] \o r["word_boundary_matches"]
        \o r["no_matches"]

\* C1: the five buckets returned by triage_raw partition the input: every
\* input item is in exactly one bucket, exactly once, and the concatenation
\* of the five buckets is a permutation of the input list.
C1_BucketsPartitionInput ==
    Returned("triage_raw") =>
        /\ DOMAIN ret = BucketNames
        /\ IsPermutation(FiveBuckets(ret), objs)
        /\ \A x \in Range(objs) :
              Cardinality({b \in BucketNames : x \in Range(ret[b])}) = 1

\* Three items have been classified, into three different buckets.
C1_Witness ==
    /\ Returned("triage_raw")
    /\ Len(objs) = 3
    /\ Cardinality({b \in BucketNames : ret[b] # <<>>}) = 3

\* The word boundary test in the words of C2: q occurs in s immediately
\* after a space, an underscore, a slash or a hyphen.
OccursAfterBoundary(s, q) ==
    \E i \in 1..Len(s) :
        s[i] \in {" ", "_", "/", "-"} /\ StartsWith(SubSeq(s, i + 1, Len(s)), q)

\* The bucket of the first test of C2 that holds.
FirstTestThatHolds(q, text) ==
    CASE toLowerCase(text) = toLowerCase(q) -> "exact_matches"
      [] toLowerCase(text) # toLowerCase(q) /\ StartsWith(text, q) ->
             "begins_with_case_sensitive_matches"
      [] toLowerCase(text) # toLowerCase(q) /\ ~StartsWith(text, q)
         /\ StartsWith(toLowerCase(text), toLowerCase(q)) ->
             "begins_with_case_insensitive_matches"
      [] toLowerCase(text) # toLowerCase(q) /\ ~StartsWith(text, q)
         /\ ~StartsWith(toLowerCase(text), toLowerCase(q))
         /\ OccursAfterBoundary(toLowerCase(text), toLowerCase(q)) ->
             "word_boundary_matches"
      [] OTHER -> "no_matches"

\* C2: triage_raw puts each item in the bucket of the first test that holds,
\* in the order exact, case-sensitive prefix, case-insensitive prefix, word
\* boundary, none; within each bucket the items keep their input order.
C2_FirstTestWinsInInputOrder ==
    Returned("triage_raw") =>
        /\ \A b \in BucketNames :
              ret[b] = SelectSeq(objs, LAMBDA x : FirstTestThatHolds(query, x.text) = b)
        /\ \A x \in Range(objs) :
              x.text = King_Hamlet =>
                  /\ query = <<"k", "i", "n", "g">> =>
                        x \in Range(ret["begins_with_case_insensitive_matches"])
                  /\ query = <<"h", "a", "m", "l", "e", "t">> =>
                        x \in Range(ret["word_boundary_matches"])
                  /\ query = <<"i", "n", "g">> => x \in Range(ret["no_matches"])

\* The examples of C2: "King Hamlet" has been classified for one of the
\* queries "king", "hamlet" and "ing", after an item of another bucket.
C2_Witness ==
    /\ Returned("triage_raw")
    /\ query \in {<<"k", "i", "n", "g">>, <<"h", "a", "m", "l", "e", "t">>, <<"i", "n", "g">>}
    /\ Len(objs) = 3
    /\ objs[1].text = <<"a">> /\ objs[2].text = King_Hamlet /\ objs[3].text = King_Hamlet
    /\ \E b \in BucketNames : ret[b] = <<objs[2], objs[3]>>

PrefixMatches(r) ==
    Range(r["begins_with_case_sensitive_matches"])
        \cup Range(r["begins_with_case_insensitive_matches"])

\* Every item of s that is in set A stands before every item of s in set B.
AllBefore(s, A, B) ==
    \A i, j \in 1..Len(s) : (s[i] \in A /\ s[j] \in B) => i < j

\* C5: triage returns matches and rest such that matches ++ rest is a
\* permutation of the input, rest holds exactly the items triage_raw puts in
\* no_matches, and in matches every exact item precedes every prefix item and
\* every prefix item precedes every word boundary item, with or without a
\* comparator.
C5_TriageKeepsTierOrder ==
    Returned("triage") =>
        LET r == triage_raw(query, objs, get_text(objs))
        IN  /\ IsPermutation(ret.matches \o ret.rest, objs)
            /\ IsPermutation(ret.rest, r["no_matches"])
            /\ AllBefore(ret.matches, Range(r["exact_matches"]), PrefixMatches(r))
            /\ AllBefore(ret.matches, PrefixMatches(r), Range(r["word_boundary_matches"]))
            /\ AllBefore(ret.matches, Range(r["exact_matches"]),
                         Range(r["word_boundary_matches"]))

\* A comparator that would put a word boundary item before a prefix item
\* and the prefix item before an exact item has been applied.
C5_Witness ==
    /\ Returned("triage")
    /\ sorting_comparator = "by_id_descending"
    /\ Len(ret.matches) = 3
    /\ LET r == triage_raw(query, objs, get_text(objs))
       IN  /\ objs[3] \in Range(r["exact_matches"])
           /\ objs[2] \in PrefixMatches(r)
           /\ objs[1] \in Range(r["word_boundary_matches"])

---------------------------------------------------------------------------
(* The emoji ranker.  A unicode emoji is a record with emoji_name,         *)
(* emoji_code, reaction_type "unicode_emoji" and is_realm_emoji FALSE; a   *)
(* realm emoji has emoji_name, reaction_type "realm_emoji" or              *)
(* "zulip_extra_emoji", is_realm_emoji TRUE and no emoji_code.             *)

popular_emojis == <<"1f44d", "1f389", "1f642", "2764", "1f6e0", "1f419">>

decent_match(name, q) ==
    LET pieces == Split(toLowerCase(name), "_")
    IN  \E i \in 1..Len(pieces) : StartsWith(pieces[i], q)

is_popular(obj, q) ==
    /\ obj.reaction_type = "unicode_emoji"
    /\ obj.emoji_code \in Range(popular_emojis)
    /\ decent_match(obj.emoji_name, q)

realm_emoji_names(os) == {os[i].emoji_name : i \in {k \in 1..Len(os) : os[k].is_realm_emoji}}

\* Faulty variant: the realm emojis are not moved to the front.
prioritise_realm_emojis_missing(emojis) == emojis

prioritise_realm_emojis(emojis) ==
    SelectSeq(emojis, LAMBDA emoji : emoji.is_realm_emoji)
        \o SelectSeq(emojis, LAMBDA emoji : ~emoji.is_realm_emoji)

\* Faulty variant: the popular matches are put before the perfect matches.
sorted_results_popular_first(os, q) ==
    LET perfect_emoji_matches == SelectSeq(os, LAMBDA obj : obj.emoji_name = q)
        without_perfect_matches == SelectSeq(os, LAMBDA obj : obj.emoji_name # q)
        popular_emoji_matches == SelectSeq(without_perfect_matches, LAMBDA obj : is_popular(obj, q))
        others == SelectSeq(without_perfect_matches, LAMBDA obj : ~is_popular(obj, q))
        triage_results == triage(q, others, [x \in Range(others) |-> x.emoji_name], "none")
    IN  popular_emoji_matches \o perfect_emoji_matches
            \o prioritise_realm_emojis(triage_results.matches)
            \o prioritise_realm_emojis(triage_results.rest)

\* sorted_results_with_possible_duplicates, for the query q as sort_emojis
\* has rewritten it.
sorted_results_with_possible_duplicates(os, q) ==
    LET perfect_emoji_matches == SelectSeq(os, LAMBDA obj : obj.emoji_name = q)
        without_perfect_matches == SelectSeq(os, LAMBDA obj : obj.emoji_name # q)
        popular_emoji_matches == SelectSeq(without_perfect_matches, LAMBDA obj : is_popular(obj, q))
        others == SelectSeq(without_perfect_matches, LAMBDA obj : ~is_popular(obj, q))
        triage_results == triage(q, others, [x \in Range(others) |-> x.emoji_name], "none")
    IN  perfect_emoji_matches \o popular_emoji_matches
            \o prioritise_realm_emojis(triage_results.matches)
            \o prioritise_realm_emojis(triage_results.rest)

\* Faulty variant: the code of a unicode emoji is recorded even when a realm emoji
\* of the same name suppresses it.
RECURSIVE UniqueLoop_recording_suppressed(_, _, _, _, _)
UniqueLoop_recording_suppressed(emojis, names, i, unicode_emoji_codes, sorted_unique_results) ==
    IF i > Len(emojis) THEN sorted_unique_results
    ELSE LET emoji == emojis[i]
         IN  IF emoji.reaction_type # "unicode_emoji"
             THEN UniqueLoop_recording_suppressed(emojis, names, i + 1, unicode_emoji_codes,
                                                  Append(sorted_unique_results, emoji))
             ELSE IF emoji.emoji_code \notin unicode_emoji_codes
             THEN UniqueLoop_recording_suppressed(emojis, names, i + 1,
                      unicode_emoji_codes \cup {emoji.emoji_code},
                      IF emoji.emoji_name \notin names
                      THEN Append(sorted_unique_results, emoji) ELSE sorted_unique_results)
             ELSE UniqueLoop_recording_suppressed(emojis, names, i + 1, unicode_emoji_codes,
                                                  sorted_unique_results)

\* Faulty variant: only the code of a unicode emoji decides whether it is kept.
RECURSIVE UniqueLoop_ignoring_names(_, _, _, _, _)
UniqueLoop_ignoring_names(emojis, names, i, unicode_emoji_codes, sorted_unique_results) ==
    IF i > Len(emojis) THEN sorted_unique_results
    ELSE LET emoji == emojis[i]
         IN  IF emoji.reaction_type # "unicode_emoji"
             THEN UniqueLoop_ignoring_names(emojis, names, i + 1, unicode_emoji_codes,
                                            Append(sorted_unique_results, emoji))
             ELSE IF emoji.emoji_code \notin unicode_emoji_codes
             THEN UniqueLoop_ignoring_names(emojis, names, i + 1,
                      unicode_emoji_codes \cup {emoji.emoji_code},
                      Append(sorted_unique_results, emoji))
             ELSE UniqueLoop_ignoring_names(emojis, names, i + 1, unicode_emoji_codes,
                                            sorted_unique_results)

\* The last loop of sort_emojis from the i-th emoji on; names is
\* realm_emoji_names.
RECURSIVE UniqueLoop(_, _, _, _, _)
UniqueLoop(emojis, names, i, unicode_emoji_codes, sorted_unique_results) ==
    IF i > Len(emojis) THEN sorted_unique_results
    ELSE LET emoji == emojis[i]
         IN  IF emoji.reaction_type # "unicode_emoji"
             THEN UniqueLoop(emojis, names, i + 1, unicode_emoji_codes,
                             Append(sorted_unique_results, emoji))
             ELSE IF emoji.emoji_code \notin unicode_emoji_codes /\ emoji.emoji_name \notin names
             THEN UniqueLoop(emojis, names, i + 1, unicode_emoji_codes \cup {emoji.emoji_code},
                             Append(sorted_unique_results, emoji))
             ELSE UniqueLoop(emojis, names, i + 1, unicode_emoji_codes, sorted_unique_results)

\* The query as sort_emojis rewrites it: spaces to underscores, lower-cased.
emoji_query(q) == toLowerCase(ReplaceAll(q, " ", "_"))

sort_emojis(os, q) ==
    UniqueLoop(sorted_results_with_possible_duplicates(os, emoji_query(q)),
               realm_emoji_names(os), 1, {}, <<>>)

---------------------------------------------------------------------------
(* Calls of sort_emojis.                                                   *)

UnicodeEmoji(name, code) ==
    [emoji_name |-> name, emoji_code |-> code, reaction_type |-> "unicode_emoji",
     is_realm_emoji |-> FALSE]

RealmEmoji(name, type) ==
    [emoji_name |-> name, reaction_type |-> type, is_realm_emoji |-> TRUE]

\* "1f44d" is a popular code, "1f600" is not.
EmojiCodes == {"1f44d", "1f600"}

\* For the query "a" the unicode emojis are a perfect match, a popular
\* match, an exact match that is not perfect, a case-sensitive and a
\* case-insensitive prefix match, a word boundary match and no match; the
\* realm emojis are a perfect, a prefix and a word boundary match and no match.
EmojiPool ==
    {UnicodeEmoji(<<"a">>, "1f44d"), UnicodeEmoji(<<"a", "b">>, "1f44d"),
     UnicodeEmoji(<<"A">>, "1f600"), UnicodeEmoji(<<"a", "b">>, "1f600"),
     UnicodeEmoji(<<"A", "b">>, "1f600"), UnicodeEmoji(<<"b", "_", "a">>, "1f600"),
     UnicodeEmoji(<<"b">>, "1f600"),
     RealmEmoji(<<"a">>, "realm_emoji"), RealmEmoji(<<"a", "b">>, "realm_emoji"),
     RealmEmoji(<<"b", "_", "a">>, "realm_emoji"), RealmEmoji(<<"b">>, "zulip_extra_emoji")}

EmojiQueries == {<<"A">>, <<"b", " ", "A">>}

InitEmoji ==
    /\ pc = "ready"
    /\ fn = "sort_emojis"
    /\ query \in EmojiQueries
    /\ objs \in UNION {[1..n -> EmojiPool] : n \in 0..MaxEmojis}
    /\ sorting_comparator = "none"
    /\ source_str = <<>>
    /\ split_char = "_"
    /\ calls = 0
    /\ ret = <<>>

SortEmojis ==
    /\ pc = "ready"
    /\ fn = "sort_emojis"
    /\ ret' = sort_emojis(objs, query)
    /\ calls' = calls + 1
    /\ pc' = "returned"
    /\ UNCHANGED <<fn, query, source_str, split_char, objs, sorting_comparator>>

NextEmoji == SortEmojis

SpecEmoji == InitEmoji /\ [][NextEmoji]_vars

Standard(x) == x.reaction_type = "unicode_emoji"

Custom(x) == x.reaction_type # "unicode_emoji"

CustomNames == {x.emoji_name : x \in {y \in Range(objs) : Custom(y)}}

\* The query with its spaces replaced by underscores, then lower-cased.
NormalizedQuery == toLowerCase([i \in 1..Len(query) |-> IF query[i] = " " THEN "_" ELSE query[i]])

\* The established ordering: perfect, popular, triage matches and rest.
Ranked == sorted_results_with_possible_duplicates(objs, NormalizedQuery)

StandardWithCode(s, c) == SelectSeq(s, LAMBDA x : Standard(x) /\ x.emoji_code = c)

\* C6, as stated: of the standard emojis of the input that share an
\* emoji_code under different names, only the one that comes first in the
\* established ordering is in the output; hence no emoji_code occurs twice
\* among the standard emojis of the output.
C6_FirstOfCodeSurvives ==
    Returned("sort_emojis") =>
        \A c \in EmojiCodes :
            LET same == StandardWithCode(Ranked, c)
            IN  /\ \A j \in 2..Len(same) :
                      same[j].emoji_name # same[1].emoji_name =>
                          same[1] \in Range(ret) /\ same[j] \notin Range(ret)
                /\ Len(StandardWithCode(ret, c)) <= 1

\* C6, amended: of the standard emojis of the input that share an
\* emoji_code, the output keeps only the first in the established ordering
\* whose name is not the name of a custom emoji of the input, and keeps it
\* once; hence no emoji_code occurs twice among the standard emojis of the
\* output.
C6_FirstUnsuppressedOfCodeSurvives ==
    Returned("sort_emojis") =>
        LET ranked == Ranked
            names == CustomNames
        IN  \A c \in EmojiCodes :
                LET kept == SelectSeq(StandardWithCode(ranked, c),
                                      LAMBDA x : x.emoji_name \notin names)
                IN  StandardWithCode(ret, c) = IF kept = <<>> THEN <<>> ELSE <<kept[1]>>

\* Two standard emojis share a code under different names, a custom emoji
\* has the name of the first, and the output holds the second.
C6_Witness ==
    /\ Returned("sort_emojis")
    /\ \E c \in EmojiCodes :
          LET same == StandardWithCode(Ranked, c)
          IN  /\ Len(same) = 2
              /\ same[1].emoji_name # same[2].emoji_name
              /\ same[1].emoji_name \in CustomNames
              /\ StandardWithCode(ret, c) = <<same[2]>>

\* C7: no standard emoji of the output has the emoji_name of a custom emoji
\* of the input, and every custom emoji of the input is kept in the output.
C7_CustomSuppressesStandardOfSameName ==
    Returned("sort_emojis") =>
        /\ \A i \in 1..Len(ret) : Standard(ret[i]) => ret[i].emoji_name \notin CustomNames
        /\ \A x \in Range(objs) : Custom(x) => Count(ret, x) = Count(objs, x)

\* A standard emoji that is a perfect match stands first in the input, a
\* custom emoji of the same name last, and the output holds only the custom
\* emojis and a standard emoji of another name.
C7_Witness ==
    /\ Returned("sort_emojis")
    /\ Len(objs) = 3
    /\ Standard(objs[1]) /\ objs[1].emoji_name = NormalizedQuery
    /\ Standard(objs[2]) /\ objs[2].emoji_name # objs[1].emoji_name
    /\ Custom(objs[3]) /\ objs[3].emoji_name = objs[1].emoji_name
    /\ Len(ret) = 2

\* C8: every item of the output whose emoji_name equals the normalized query
\* stands before every item whose name differs from it.
C8_PerfectMatchesFirst ==
    Returned("sort_emojis") =>
        \A i, j \in 1..Len(ret) :
            (ret[i].emoji_name = NormalizedQuery /\ ret[j].emoji_name # NormalizedQuery)
                => i < j

\* A query with a space: the perfect match stood last in the input, behind
\* a custom emoji and a standard emoji, and is first in the output.
C8_Witness ==
    /\ Returned("sort_emojis")
    /\ query # NormalizedQuery
    /\ \E i \in 1..Len(query) : query[i] = " "
    /\ Len(objs) = 3 /\ Len(ret) = 3
    /\ Custom(objs[1]) /\ Standard(objs[2])
    /\ objs[3].emoji_name = NormalizedQuery
    /\ ret[1] = objs[3]

Perfect(x) == x.emoji_name = NormalizedQuery

Popular(x) == ~Perfect(x) /\ is_popular(x, NormalizedQuery)

\* The triage tier of an emoji: 1 exact, 2 case-sensitive prefix,
\* 3 case-insensitive prefix, 4 word boundary, 5 no match.
Tier(x) ==
    LET b == FirstTestThatHolds(NormalizedQuery, x.emoji_name)
    IN  CASE b = "exact_matches" -> 1
          [] b = "begins_with_case_sensitive_matches" -> 2
          [] b = "begins_with_case_insensitive_matches" -> 3
          [] b = "word_boundary_matches" -> 4
          [] b = "no_matches" -> 5

\* 0 for a perfect match, 1 for a popular match, 2 for the others.
Stage(x) == IF Perfect(x) THEN 0 ELSE IF Popular(x) THEN 1 ELSE 2

Kind(x) == IF Custom(x) THEN 0 ELSE 1

RECURSIVE IsSubsequence(_, _)
IsSubsequence(s, t) ==
    IF s = <<>> THEN TRUE
    ELSE IF t = <<>> THEN FALSE
    ELSE IF Head(s) = Head(t) THEN IsSubsequence(Tail(s), Tail(t))
    ELSE IsSubsequence(s, Tail(t))

\* The stage, tier and kind of every emoji of s, in the order of s.
Classes(s) == [i \in 1..Len(s) |-> <<Stage(s[i]), Tier(s[i]), Kind(s[i])>>] \o <<>>

\* The items of s whose class, the item of cs of the same index, is c.
RECURSIVE OfClass(_, _, _)
OfClass(s, cs, c) ==
    IF s = <<>> THEN <<>>
    ELSE (IF Head(cs) = c THEN <<Head(s)>> ELSE <<>>) \o OfClass(Tail(s), Tail(cs), c)

\* The items of the output with the same stage, tier and kind stand in
\* their input order.
InputOrderKept ==
    LET out == Classes(ret)
        in == Classes(objs)
    IN  \A c \in Range(out) : IsSubsequence(OfClass(ret, out, c), OfClass(objs, in, c))

\* C9, as stated: after the perfect and the popular matches the remaining
\* items follow the triage order, tier by tier, and a custom emoji is ahead
\* of a standard emoji only within the same tier; input order is kept among
\* the items of the same tier and kind.
C9_CustomFirstWithinEachTier ==
    Returned("sort_emojis") =>
        /\ LET c == Classes(ret)
           IN  \A i, j \in 1..Len(ret) :
                   i < j =>
                       /\ c[i][1] <= c[j][1]
                       /\ (c[i][1] = 2 /\ c[j][1] = 2) =>
                             \/ c[i][2] < c[j][2]
                             \/ c[i][2] = c[j][2] /\ c[i][3] <= c[j][3]
        /\ InputOrderKept

\* 0 for a triage match (tiers 1 to 4), 1 for the rest (tier 5).
Half(tier) == IF tier < 5 THEN 0 ELSE 1

\* C9, amended: after the perfect and the popular matches come all the
\* triage matches and then the non-matching items; within the matches as a
\* whole, and within the non-matching items, the custom emojis stand before
\* the standard emojis, so a custom emoji of a weaker matching tier does
\* precede a standard emoji of a stronger one; the triage tier order holds
\* among the custom matches and among the standard matches, and input order
\* is kept among the items of the same tier and kind.
C9_CustomFirstWithinMatchesAndRest ==
    Returned("sort_emojis") =>
        /\ LET c == Classes(ret)
           IN  \A i, j \in 1..Len(ret) :
                   i < j =>
                       /\ c[i][1] <= c[j][1]
                       /\ (c[i][1] = 2 /\ c[j][1] = 2) =>
                             \/ Half(c[i][2]) < Half(c[j][2])
                             \/ /\ Half(c[i][2]) = Half(c[j][2])
                                /\ c[i][3] < c[j][3]
                             \/ /\ Half(c[i][2]) = Half(c[j][2])
                                /\ c[i][3] = c[j][3]
                                /\ c[i][2] <= c[j][2]
        /\ InputOrderKept

\* A custom word boundary match stands in the output before a standard
\* prefix match that preceded it in the input, and a non-matching custom
\* emoji stands behind both.
C9_Witness ==
    /\ Returned("sort_emojis")
    /\ Len(ret) = 3
    /\ \A i \in 1..3 : Stage(ret[i]) = 2
    /\ Custom(ret[1]) /\ Tier(ret[1]) = 4
    /\ Standard(ret[2]) /\ Tier(ret[2]) = 2
    /\ Custom(ret[3]) /\ Tier(ret[3]) = 5
    /\ objs = <<ret[3], ret[2], ret[1]>>

---------------------------------------------------------------------------
(* All the calls together.                                                 *)

Init == InitNorm \/ InitMatch \/ InitTriage \/ InitEmoji

Next == NextNorm \/ NextMatch \/ NextTriage \/ NextEmoji

Spec == Init /\ [][Next]_vars

====
